---- MODULE Spec2Model ----
(***************************************************************************)
(* State-machine model of the workflow builder's value-reconciliation hook *)
(* (useSubBlockValue) and of the block Toolbar.                            *)
(*                                                                         *)
(* One block (blockId) is modelled with one sub-block field (subBlockId)   *)
(* and its 'model' field.  One hook instance, h1, is modelled with its     *)
(* refs and closures; a second instance on the same field appears through  *)
(* its setter (OtherInstanceSetValue).  A React commit (render body plus   *)
(* the effects it schedules, in source order) is one atomic step.  Store   *)
(* subscriptions re-render synchronously, so user events (setValue, a      *)
(* change of model, a settings toggle) only happen once every mounted hook *)
(* has rendered the latest store snapshot.                                 *)
(*                                                                         *)
(* Strings are sequences of one-character strings so that trim,            *)
(* toLowerCase, includes, startsWith and endsWith are computed.            *)
(* Objects carry an identity (id) and a content (a set of                  *)
(* <<property, value>> pairs); two variables alias when they hold the same *)
(* id.                                                                     *)
(***************************************************************************)
EXTENDS Integers, Sequences, FiniteSets, TLC

VARIABLES
    blockType,                \* Workflow Store: state.blocks[blockId].type
    subBlockId,               \* the hook's sub-block id
    initialValue,             \* Workflow Store: the sub-block's initial value
    triggerWorkflowUpdate,    \* the hook's third parameter
    fieldValue,               \* SubBlock Store: value of (blockId, subBlockId)
    model,                    \* SubBlock Store: value of (blockId, 'model')
    toolParams,               \* SubBlock Store: scope -> stored 'apiKey' param
    clearedParams,            \* SubBlock Store: (blockId, 'apiKey') is marked cleared
    isAutoFillEnvVarsEnabled, \* General Store setting
    hooks,                    \* per hook instance: refs and last render's closure
    callerRef,                \* the object the calling component last passed to setValue
    last,                     \* the last step: operation, input, calls made
    activeTab,                \* Toolbar state
    searchQuery,              \* Toolbar state
    isCollapsed,              \* Toolbar state
    registry,                 \* the block registry the Toolbar reads
    blocks                    \* Toolbar: the memoised list of blocks shown

hookVars == <<blockType, subBlockId, initialValue, triggerWorkflowUpdate, fieldValue,
              model, toolParams, clearedParams, isAutoFillEnvVarsEnabled, hooks,
              callerRef, last>>
toolbarVars == <<activeTab, searchQuery, isCollapsed, registry, blocks>>
vars == <<hookVars, toolbarVars>>

----------------------------------------------------------------------------
(* Bounds *)

\* object identities available to the model
MaxObjects == 6
\* longest search string typed into the Toolbar
MaxQueryLen == 2

----------------------------------------------------------------------------
(* JavaScript strings *)

Min(S) == CHOOSE x \in S : \A y \in S : x <= y
Max(S) == CHOOSE x \in S : \A y \in S : x >= y

LowerChar(c) ==
    CASE c = "A" -> "a" [] c = "P" -> "p" [] c = "I" -> "i" [] c = "K" -> "k"
      [] c = "E" -> "e" [] c = "Y" -> "y" [] c = "S" -> "s" [] c = "N" -> "n"
      [] c = "Q" -> "q" [] c = "W" -> "w"
      [] OTHER -> c

toLowerCase(s) == IF Len(s) = 0 THEN <<>> ELSE [i \in 1..Len(s) |-> LowerChar(s[i])]

includes(s, q) ==
    \E i \in 0..(Len(s) - Len(q)) : SubSeq(s, i + 1, i + Len(q)) = q

trim(s) ==
    LET idx == {i \in 1..Len(s) : s[i] # " "}
    IN  IF idx = {} THEN <<>> ELSE SubSeq(s, Min(idx), Max(idx))

startsWith(s, p) == Len(s) >= Len(p) /\ SubSeq(s, 1, Len(p)) = p
endsWith(s, p) == Len(s) >= Len(p) /\ SubSeq(s, Len(s) - Len(p) + 1, Len(s)) = p

----------------------------------------------------------------------------
(* JavaScript values: null, undefined, strings and plain objects *)

Null == [t |-> "null", s |-> <<>>, id |-> 0, c |-> {}]
Undefined == [t |-> "undefined", s |-> <<>>, id |-> 0, c |-> {}]
Str(s) == [t |-> "string", s |-> s, id |-> 0, c |-> {}]
Obj(i, c) == [t |-> "object", s |-> <<>>, id |-> i, c |-> c]

\* the value without its identity: what a deep comparison sees
Strip(v) == [v EXCEPT !.id = 0]

\* lodash isEqual: deep equality
isEqual(a, b) == Strip(a) = Strip(b)

\* Object.is / ===: primitives by value, objects by identity
ObjectIs(a, b) == a = b

\* JavaScript truthiness
Truthy(v) == v.t = "object" \/ (v.t = "string" /\ v.s # <<>>)

\* String(v)
StringOf(v) ==
    CASE v.t = "string" -> v.s
      [] v.t = "null" -> <<"n", "u", "l", "l">>
      [] v.t = "undefined" -> <<"u", "n", "d", "e", "f", "i", "n", "e", "d">>
      [] OTHER -> <<"[", "o", "b", "j", "e", "c", "t", " ", "O", "b", "j", "e", "c", "t", "]">>

\* JSON.parse(JSON.stringify(c)) on an object's content: properties whose value
\* is undefined are dropped
JsonRoundTrip(c) == {p \in c : p[2] # "undefined"}

----------------------------------------------------------------------------
(* The domains the inputs are drawn from *)

ObjectIds == 1..MaxObjects

ApiKeyId == <<"a", "p", "i", "K", "e", "y">>
AltApiKeyId == <<"x", "A", "P", "I", "K", "E", "Y">>
CodeId == <<"c", "o", "d", "e">>
SubBlockIds == {ApiKeyId, AltApiKeyId, CodeId}

UndefinedType == "<undefined>"
ProviderBlockTypes == {"agent", "router", "evaluator"}
BlockTypes == ProviderBlockTypes \cup {"snowflake"}

NullModel == "<null>"
Models == {"gpt-4o", "gpt-4", "claude-3", "llama3", "custom"}

NoProvider == "<none>"
Providers == {"openai", "anthropic", "ollama"}
Scopes == Providers \cup BlockTypes

EnvRef == <<"{", "{", "E", "}", "}">>
KeyK == <<"k">>
KeyJ == <<"j">>

\* what a user can type into an API-key input; an environment-variable
\* reference is only told apart from other text on a non-provider block
\* (handleStandardBlockApiKey, lines 68-73)
KeyInputs(bt) ==
    {Null, Str(<<>>), Str(<<" ">>), Str(KeyK)}
        \cup (IF bt \in {"agent", "router", "evaluator"} THEN {} ELSE {Str(EnvRef)})

\* contents of the objects a component passes for a structured field
Contents == {{}, {<<"a", "1">>}, {<<"a", "undefined">>}}
\* primitive values a component passes for an ordinary field
PlainInputs == {Null, Str(KeyK)}

\* one record per call the hook makes on a store
Call(fn, scope, val) == [fn |-> fn, scope |-> scope, val |-> Strip(val)]

----------------------------------------------------------------------------
(* Collaborators: the SubBlock Store and provider resolution *)

\* getProviderFromModel: model identifier -> provider identifier or null
getProviderFromModel(m) ==
    CASE m \in {"gpt-4o", "gpt-4"} -> "openai"
      [] m = "claude-3" -> "anthropic"
      [] m = "llama3" -> "ollama"
      [] OTHER -> NoProvider

\* subBlockStore.resolveToolParamValue(scope, 'apiKey', blockId): nothing for an
\* instance marked cleared, else the value stored for the scope
resolveToolParamValue(scope, st) ==
    IF st.cleared THEN Null ELSE st.params[scope]

\* subBlockStore.setValue(blockId, subBlockId, value)
storeSetValue(value, st) ==
    [st EXCEPT !.fv = value, !.calls = Append(@, Call("setValue", "", value))]

\* subBlockStore.setToolParam(scope, 'apiKey', value)
setToolParam(scope, value, st) ==
    [st EXCEPT !.params[scope] = Str(value),
               !.calls = Append(@, Call("setToolParam", scope, Str(value)))]

\* subBlockStore.markParamAsCleared(blockId, 'apiKey')
markParamAsCleared(st) ==
    [st EXCEPT !.cleared = TRUE, !.calls = Append(@, Call("markParamAsCleared", "", Null))]

\* subBlockStore.unmarkParamAsCleared(blockId, 'apiKey')
unmarkParamAsCleared(st) ==
    [st EXCEPT !.cleared = FALSE, !.calls = Append(@, Call("unmarkParamAsCleared", "", Null))]

\* a resolveToolParamValue call, logged, st unchanged otherwise
logResolve(scope, st) ==
    [st EXCEPT !.calls = Append(@, Call("resolveToolParamValue", scope, Null))]

----------------------------------------------------------------------------
(* use-sub-block-value.ts: the helpers *)

ModelTruthy(m) == m # NullModel

\* handleProviderBasedApiKey without the ollama exclusion of line 25
handleProviderBasedApiKey_NoOllamaCheck(modelValue, storeValue, st) ==
    IF ~ModelTruthy(modelValue) THEN st
    ELSE LET provider == getProviderFromModel(modelValue)
         IN  IF provider = NoProvider THEN st
             ELSE LET savedValue == resolveToolParamValue(provider, st)
                      s1 == logResolve(provider, st)
                  IN  IF Truthy(savedValue) /\ ~ObjectIs(savedValue, Str(<<>>))
                      THEN storeSetValue(savedValue, s1)
                      ELSE storeSetValue(Str(<<>>), s1)

handleProviderBasedApiKey(modelValue, storeValue, st) ==
    IF ~ModelTruthy(modelValue) THEN st
    ELSE LET provider == getProviderFromModel(modelValue)
         IN  IF provider = NoProvider \/ provider = "ollama" THEN st
             ELSE LET savedValue == resolveToolParamValue(provider, st)
                      s1 == logResolve(provider, st)
                  IN  IF Truthy(savedValue) /\ ~ObjectIs(savedValue, Str(<<>>))
                      THEN storeSetValue(savedValue, s1)
                      ELSE storeSetValue(Str(<<>>), s1)

\* handleStandardBlockApiKey reading the stored param directly (getToolParam)
\* instead of resolving it for this instance (line 60)
handleStandardBlockApiKey_GetToolParam(bt, storeValue, st) ==
    IF bt = UndefinedType THEN st
    ELSE IF ~Truthy(storeValue) \/ ObjectIs(storeValue, Str(<<>>))
         THEN LET savedValue == st.params[bt]
                  s1 == logResolve(bt, st)
              IN  IF Truthy(savedValue) /\ ~ObjectIs(savedValue, Str(<<>>))
                     /\ ~ObjectIs(savedValue, storeValue)
                  THEN storeSetValue(savedValue, s1)
                  ELSE s1
         ELSE IF Truthy(storeValue) /\ storeValue.t = "string"
                 /\ startsWith(storeValue.s, <<"{", "{">>)
                 /\ endsWith(storeValue.s, <<"}", "}">>)
              THEN LET currentValue == resolveToolParamValue(bt, st)
                       s1 == logResolve(bt, st)
                   IN  IF ~ObjectIs(currentValue, storeValue) /\ Truthy(currentValue)
                       THEN storeSetValue(currentValue, s1)
                       ELSE s1
              ELSE st

\* handleStandardBlockApiKey with a third branch that empties a field holding
\* a plain key (after line 84)
handleStandardBlockApiKey_EmptiesFilled(bt, storeValue, st) ==
    IF bt = UndefinedType THEN st
    ELSE IF ~Truthy(storeValue) \/ ObjectIs(storeValue, Str(<<>>))
         THEN LET savedValue == resolveToolParamValue(bt, st)
                  s1 == logResolve(bt, st)
              IN  IF Truthy(savedValue) /\ ~ObjectIs(savedValue, Str(<<>>))
                     /\ ~ObjectIs(savedValue, storeValue)
                  THEN storeSetValue(savedValue, s1)
                  ELSE s1
         ELSE IF Truthy(storeValue) /\ storeValue.t = "string"
                 /\ startsWith(storeValue.s, <<"{", "{">>)
                 /\ endsWith(storeValue.s, <<"}", "}">>)
              THEN LET currentValue == resolveToolParamValue(bt, st)
                       s1 == logResolve(bt, st)
                   IN  IF ~ObjectIs(currentValue, storeValue) /\ Truthy(currentValue)
                       THEN storeSetValue(currentValue, s1)
                       ELSE s1
              ELSE storeSetValue(Str(<<>>), st)

handleStandardBlockApiKey(bt, storeValue, st) ==
    IF bt = UndefinedType THEN st
    ELSE IF ~Truthy(storeValue) \/ ObjectIs(storeValue, Str(<<>>))
         THEN LET savedValue == resolveToolParamValue(bt, st)
                  s1 == logResolve(bt, st)
              IN  IF Truthy(savedValue) /\ ~ObjectIs(savedValue, Str(<<>>))
                     /\ ~ObjectIs(savedValue, storeValue)
                  THEN storeSetValue(savedValue, s1)
                  ELSE s1
         ELSE IF Truthy(storeValue) /\ storeValue.t = "string"
                 /\ startsWith(storeValue.s, <<"{", "{">>)
                 /\ endsWith(storeValue.s, <<"}", "}">>)
              THEN LET currentValue == resolveToolParamValue(bt, st)
                       s1 == logResolve(bt, st)
                   IN  IF ~ObjectIs(currentValue, storeValue) /\ Truthy(currentValue)
                       THEN storeSetValue(currentValue, s1)
                       ELSE s1
              ELSE st

IsBlankInput(newValue) ==
    newValue = Null \/ ObjectIs(newValue, Str(<<>>)) \/ trim(StringOf(newValue)) = <<>>

\* storeApiKeyValue testing only newValue === '' at line 107
storeApiKeyValue_OnlyEmptyString(bt, modelValue, newValue, storeValue, st) ==
    IF bt = UndefinedType THEN st
    ELSE IF Truthy(storeValue) /\ ~ObjectIs(storeValue, Str(<<>>))
            /\ ObjectIs(newValue, Str(<<>>))
         THEN markParamAsCleared(st)
         ELSE IF ~Truthy(newValue) \/ trim(StringOf(newValue)) = <<>> THEN st
              ELSE LET s1 == IF st.cleared THEN unmarkParamAsCleared(st) ELSE st
                   IN  IF bt \in {"agent", "router", "evaluator"} /\ ModelTruthy(modelValue)
                       THEN LET provider == getProviderFromModel(modelValue)
                            IN  IF provider # NoProvider /\ provider # "ollama"
                                THEN setToolParam(provider, StringOf(newValue), s1)
                                ELSE s1
                       ELSE setToolParam(bt, StringOf(newValue), s1)

\* storeApiKeyValue storing every key under the block type (lines 124-132)
storeApiKeyValue_AlwaysBlockType(bt, modelValue, newValue, storeValue, st) ==
    IF bt = UndefinedType THEN st
    ELSE IF Truthy(storeValue) /\ ~ObjectIs(storeValue, Str(<<>>)) /\ IsBlankInput(newValue)
         THEN markParamAsCleared(st)
         ELSE IF ~Truthy(newValue) \/ trim(StringOf(newValue)) = <<>> THEN st
              ELSE LET s1 == IF st.cleared THEN unmarkParamAsCleared(st) ELSE st
                   IN  setToolParam(bt, StringOf(newValue), s1)

storeApiKeyValue(bt, modelValue, newValue, storeValue, st) ==
    IF bt = UndefinedType THEN st
    ELSE IF Truthy(storeValue) /\ ~ObjectIs(storeValue, Str(<<>>)) /\ IsBlankInput(newValue)
         THEN markParamAsCleared(st)
         ELSE IF ~Truthy(newValue) \/ trim(StringOf(newValue)) = <<>> THEN st
              ELSE LET s1 == IF st.cleared THEN unmarkParamAsCleared(st) ELSE st
                   IN  IF bt \in {"agent", "router", "evaluator"} /\ ModelTruthy(modelValue)
                       THEN LET provider == getProviderFromModel(modelValue)
                            IN  IF provider # NoProvider /\ provider # "ollama"
                                THEN setToolParam(provider, StringOf(newValue), s1)
                                ELSE s1
                       ELSE setToolParam(bt, StringOf(newValue), s1)

----------------------------------------------------------------------------
(* use-sub-block-value.ts: the hook *)

Hooks == {"h1"}

\* line 172: is this an API-key field
isApiKey(id) == id = ApiKeyId \/ includes(toLowerCase(id), <<"a", "p", "i", "k", "e", "y">>)

\* line 184 also taking a block of unknown type for a provider-based one
isProviderBasedBlock_OrUnknown(bt) ==
    bt = "agent" \/ bt = "router" \/ bt = "evaluator" \/ bt = UndefinedType

\* line 184
isProviderBasedBlock(bt) == bt = "agent" \/ bt = "router" \/ bt = "evaluator"

\* line 187: modelValue from the value of (blockId, 'model')
ModelValueOf(bt, modelSubBlockValue) ==
    IF isProviderBasedBlock(bt) THEN modelSubBlockValue ELSE NullModel

\* lines 197-202: the copy handed to the store; copyId is the identity of the
\* object JSON.parse creates
valueCopy(newValue, copyId) ==
    IF newValue = Null THEN Null
    ELSE IF newValue.t = "object" THEN Obj(copyId, JsonRoundTrip(newValue.c))
         ELSE newValue

\* workflowStore.triggerUpdate()
triggerUpdate(st) == [st EXCEPT !.calls = Append(@, Call("triggerUpdate", "", Null))]

\* setValue routing every field's value through storeApiKeyValue (line 205
\* without isApiKey)
setValue_EveryField(bt, id, trigger, modelValue, storeValue, newValue, copyId, st) ==
    IF ~isEqual(st.ref, newValue)
    THEN LET s1 == [st EXCEPT !.ref = newValue]
             s2 == IF bt # UndefinedType
                   THEN storeApiKeyValue(bt, modelValue, newValue, storeValue, s1)
                   ELSE s1
             s3 == storeSetValue(valueCopy(newValue, copyId), s2)
         IN  IF trigger THEN triggerUpdate(s3) ELSE s3
    ELSE st

\* setValue notifying the Workflow Store before it writes the SubBlock Store
\* (lines 213-215 ahead of line 211)
setValue_TriggerBeforeWrite(bt, id, trigger, modelValue, storeValue, newValue, copyId, st) ==
    IF ~isEqual(st.ref, newValue)
    THEN LET s1 == [st EXCEPT !.ref = newValue]
             s2 == IF isApiKey(id) /\ bt # UndefinedType
                   THEN storeApiKeyValue(bt, modelValue, newValue, storeValue, s1)
                   ELSE s1
             s3 == IF trigger THEN triggerUpdate(s2) ELSE s2
         IN  storeSetValue(valueCopy(newValue, copyId), s3)
    ELSE st

\* lines 190-219: setValue, with the closure of the hook's last render
setValue(bt, id, trigger, modelValue, storeValue, newValue, copyId, st) ==
    IF ~isEqual(st.ref, newValue)
    THEN LET s1 == [st EXCEPT !.ref = newValue]
             s2 == IF isApiKey(id) /\ bt # UndefinedType
                   THEN storeApiKeyValue(bt, modelValue, newValue, storeValue, s1)
                   ELSE s1
             s3 == storeSetValue(valueCopy(newValue, copyId), s2)
         IN  IF trigger THEN triggerUpdate(s3) ELSE s3
    ELSE st

\* lines 222-224: initialisation effect (mount only)
initEffect(storeValue, initial, st) ==
    [st EXCEPT !.ref = IF storeValue # Undefined THEN storeValue ELSE initial]

\* lines 227-241: auto-fill effect
autoFillEffect(bt, id, autoFill, modelValue, storeValue, st) ==
    IF ~autoFill THEN st
    ELSE IF ~isApiKey(id) THEN st
         ELSE IF isProviderBasedBlock(bt)
              THEN handleProviderBasedApiKey(modelValue, storeValue, st)
              ELSE handleStandardBlockApiKey(bt, storeValue, st)

\* the model-change effect filling the stored key whatever the auto-fill
\* setting (line 266 without isAutoFillEnvVarsEnabled)
modelChangeEffect_IgnoresSetting(bt, id, autoFill, modelValue, st) ==
    IF ~isApiKey(id) \/ ~isProviderBasedBlock(bt) THEN st
    ELSE IF modelValue # st.prev
         THEN LET s1 == [st EXCEPT !.prev = modelValue]
              IN  IF ModelTruthy(modelValue)
                  THEN LET provider == getProviderFromModel(modelValue)
                       IN  IF provider = NoProvider \/ provider = "ollama" THEN s1
                           ELSE LET savedValue == resolveToolParamValue(provider, s1)
                                    s2 == logResolve(provider, s1)
                                IN  IF Truthy(savedValue) /\ ~ObjectIs(savedValue, Str(<<>>))
                                    THEN storeSetValue(savedValue, s2)
                                    ELSE storeSetValue(Str(<<>>), s2)
                  ELSE s1
         ELSE st

\* lines 244-276: model-change effect
modelChangeEffect(bt, id, autoFill, modelValue, st) ==
    IF ~isApiKey(id) \/ ~isProviderBasedBlock(bt) THEN st
    ELSE IF modelValue # st.prev
         THEN LET s1 == [st EXCEPT !.prev = modelValue]
              IN  IF ModelTruthy(modelValue)
                  THEN LET provider == getProviderFromModel(modelValue)
                       IN  IF provider = NoProvider \/ provider = "ollama" THEN s1
                           ELSE LET savedValue == resolveToolParamValue(provider, s1)
                                    s2 == logResolve(provider, s1)
                                IN  IF Truthy(savedValue) /\ ~ObjectIs(savedValue, Str(<<>>))
                                       /\ autoFill
                                    THEN storeSetValue(savedValue, s2)
                                    ELSE storeSetValue(Str(<<>>), s2)
                  ELSE s1
         ELSE st

\* the ref-sync effect without the deep comparison of line 282
refSyncEffect_AlwaysAssign(storeValue, initial, st) ==
    [st EXCEPT !.ref = IF storeValue # Undefined THEN storeValue ELSE initial]

\* lines 280-285: ref-sync effect
refSyncEffect(storeValue, initial, st) ==
    IF ~isEqual(st.ref, storeValue)
    THEN [st EXCEPT !.ref = IF storeValue # Undefined THEN storeValue ELSE initial]
    ELSE st

\* subBlockStore.getValue(blockId, subBlockId): the stored value, null by default
getValue == fieldValue

\* the view of the stores and of hook h's refs that one step works on
View(h) ==
    [cleared |-> clearedParams, params |-> toolParams, fv |-> fieldValue,
     ref |-> hooks[h].valueRef, prev |-> hooks[h].prevModelRef, calls |-> <<>>]

\* a mounted hook whose subscriptions have fired since its last render
Dirty(h) ==
    /\ hooks[h].mounted
    /\ \/ ~ObjectIs(hooks[h].storeValue, getValue)
       \/ hooks[h].modelSub # model
       \/ hooks[h].autoFill # isAutoFillEnvVarsEnabled

Quiescent == \A h \in Hooks : ~Dirty(h)

UsedIds ==
    {fieldValue.id, callerRef.id} \cup {hooks[h].valueRef.id : h \in Hooks}
        \cup {hooks[h].storeValue.id : h \in Hooks}

FreeIds == ObjectIds \ UsedIds

\* what a step records about itself: the operation, its input, the calls it
\* made on the stores, what a render returned, the state it started from,
\* for a render the step it followed, and the key the last setValue call
\* entered into an API-key field (a call that went past line 193) if no
\* setValue call, change of model or change of the auto-fill setting came
\* after it
Step(op, h, v, st, ret) ==
    [op |-> op, h |-> h, v |-> Strip(v), calls |-> st.calls, ret |-> Strip(ret),
     pre |-> [fv |-> Strip(fieldValue), cleared |-> clearedParams,
              ref |-> IF h \in Hooks THEN hooks[h].valueRef
                      ELSE IF op = "mutate" THEN hooks["h1"].valueRef ELSE Null,
              prev |-> IF h \in Hooks THEN hooks[h].prevModelRef ELSE NullModel,
              model |-> model, autoFill |-> isAutoFillEnvVarsEnabled,
              stale |-> IF h \in Hooks
                        THEN hooks[h].mounted /\ ~ObjectIs(hooks[h].storeValue, fieldValue)
                        ELSE FALSE],
     after |-> IF op \in {"mount", "render"}
               THEN [op |-> last.op, v |-> last.v, noop |-> last.calls = <<>>]
               ELSE [op |-> "", v |-> Null, noop |-> FALSE],
     entered |-> IF op \in {"setValue", "otherInstance", "modelChange", "toggleAutoFill"}
                 THEN IF op \in {"setValue", "otherInstance"} /\ isApiKey(subBlockId)
                         /\ ~IsBlankInput(v) /\ st.calls # <<>>
                      THEN Strip(v)
                      ELSE Undefined
                 ELSE last.entered]

NoCalls == [calls |-> <<>>]

\* one React commit of hook h: the render body (lines 149-187, 287) and then
\* the effects whose dependencies changed, in source order
Render(h) ==
    LET hk == hooks[h]
        first == ~hk.mounted
        storeValue == getValue
        modelValue == ModelValueOf(blockType, model)
        autoFill == isAutoFillEnvVarsEnabled
        storeChanged == first \/ ~ObjectIs(hk.storeValue, storeValue)
        depsChanged == \/ storeChanged
                       \/ ModelValueOf(blockType, hk.modelSub) # modelValue
                       \/ hk.autoFill # autoFill
        s0 == View(h)
        s1 == IF first THEN initEffect(storeValue, initialValue, s0) ELSE s0
        s2 == IF depsChanged
              THEN autoFillEffect(blockType, subBlockId, autoFill, modelValue, storeValue, s1)
              ELSE s1
        s3 == IF depsChanged
              THEN modelChangeEffect(blockType, subBlockId, autoFill, modelValue, s2)
              ELSE s2
        s4 == IF storeChanged THEN refSyncEffect(storeValue, initialValue, s3) ELSE s3
    IN  /\ hooks' = [hooks EXCEPT ![h] =
                        [mounted |-> TRUE, valueRef |-> s4.ref, prevModelRef |-> s4.prev,
                         storeValue |-> storeValue, modelSub |-> model,
                         autoFill |-> autoFill]]
        /\ fieldValue' = s4.fv
        /\ toolParams' = s4.params
        /\ clearedParams' = s4.cleared
        /\ last' = Step(IF first THEN "mount" ELSE "render", h, Null, s4, hk.valueRef)
        /\ UNCHANGED <<blockType, subBlockId, initialValue, triggerWorkflowUpdate, model,
                       isAutoFillEnvVarsEnabled, callerRef, toolbarVars>>

\* the component calls the setter hook h returned, with newValue
CallSetValue(h, newValue, copyId) ==
    LET hk == hooks[h]
        s1 == setValue(blockType, subBlockId, triggerWorkflowUpdate,
                       ModelValueOf(blockType, hk.modelSub), hk.storeValue, newValue,
                       copyId, View(h))
    IN  /\ hooks' = [hooks EXCEPT ![h].valueRef = s1.ref]
        /\ fieldValue' = s1.fv
        /\ toolParams' = s1.params
        /\ clearedParams' = s1.cleared
        /\ callerRef' = IF newValue.t = "object" THEN newValue ELSE callerRef
        /\ last' = Step("setValue", h, newValue, s1, Null)
        /\ UNCHANGED <<blockType, subBlockId, initialValue, triggerWorkflowUpdate, model,
                       isAutoFillEnvVarsEnabled, toolbarVars>>

\* setValue with a primitive (a string or null)
SetValuePrimitive(h) ==
    /\ hooks[h].mounted /\ Quiescent
    /\ \E v \in (IF isApiKey(subBlockId) THEN KeyInputs(blockType) ELSE PlainInputs) :
           CallSetValue(h, v, 0)

\* setValue with an object the component has just built
SetValueNewObject(h) ==
    /\ hooks[h].mounted /\ Quiescent
    /\ ~isApiKey(subBlockId)
    /\ Cardinality(FreeIds) >= 2
    /\ \E c \in Contents :
           CallSetValue(h, Obj(Min(FreeIds), c), Min(FreeIds \ {Min(FreeIds)}))

\* setValue with the object the component passed before (and may have mutated)
SetValueSameObject(h) ==
    /\ hooks[h].mounted /\ Quiescent
    /\ callerRef.t = "object"
    /\ FreeIds # {}
    /\ CallSetValue(h, callerRef, Min(FreeIds))

\* the component mutates, in place, the object it passed to setValue
MutateObject ==
    /\ Quiescent
    /\ callerRef.t = "object"
    /\ \E c \in Contents \ {callerRef.c} :
        /\ callerRef' = [callerRef EXCEPT !.c = c]
        /\ hooks' = [h \in Hooks |->
                        IF hooks[h].valueRef.t = "object" /\ hooks[h].valueRef.id = callerRef.id
                        THEN [hooks[h] EXCEPT !.valueRef.c = c]
                        ELSE hooks[h]]
        /\ last' = Step("mutate", "none", Obj(0, c), NoCalls, Null)
    /\ UNCHANGED <<blockType, subBlockId, initialValue, triggerWorkflowUpdate, fieldValue,
                   model, toolParams, clearedParams, isAutoFillEnvVarsEnabled, toolbarVars>>

\* the user selects another model: the model dropdown writes (blockId, 'model')
ModelChange ==
    /\ Quiescent
    /\ isProviderBasedBlock(blockType)
    /\ \E m \in (Models \cup {NullModel}) \ {model} :
        /\ model' = m
        /\ last' = Step("modelChange", "none", Null, NoCalls, Null)
    /\ UNCHANGED <<blockType, subBlockId, initialValue, triggerWorkflowUpdate, fieldValue,
                   toolParams, clearedParams, isAutoFillEnvVarsEnabled, hooks, callerRef,
                   toolbarVars>>

\* the user toggles the auto-fill setting
ToggleAutoFill ==
    /\ Quiescent
    /\ isAutoFillEnvVarsEnabled' = ~isAutoFillEnvVarsEnabled
    /\ last' = Step("toggleAutoFill", "none", Null, NoCalls, Null)
    /\ UNCHANGED <<blockType, subBlockId, initialValue, triggerWorkflowUpdate, fieldValue,
                   model, toolParams, clearedParams, hooks, callerRef, toolbarVars>>

\* another hook instance mounted on the same (blockId, subBlockId) calls its
\* setter: the same setValue, with that instance's cache and closure, which
\* at quiescence hold the store's current value
OtherInstanceSetValue ==
    /\ Quiescent
    /\ FreeIds # {}
    /\ \E v \in (IF isApiKey(subBlockId) THEN KeyInputs(blockType)
                 ELSE PlainInputs \cup {Obj(0, c) : c \in Contents}) :
        LET s0 == [View("h1") EXCEPT !.ref = fieldValue]
            s1 == setValue(blockType, subBlockId, triggerWorkflowUpdate,
                           ModelValueOf(blockType, model), fieldValue, v, Min(FreeIds), s0)
        IN  /\ fieldValue' = s1.fv
            /\ toolParams' = s1.params
            /\ clearedParams' = s1.cleared
            /\ last' = Step("otherInstance", "none", v, s1, Null)
    /\ UNCHANGED <<blockType, subBlockId, initialValue, triggerWorkflowUpdate, model,
                   isAutoFillEnvVarsEnabled, hooks, callerRef, toolbarVars>>

\* the scopes this block's hook resolves stored keys from
ReadScopes(bt) ==
    IF isProviderBasedBlock(bt) THEN {"openai", "anthropic"} ELSE {bt} \cap BlockTypes

\* the hook of another block stores the key its user typed (lines 123-132):
\* under a provider other than ollama, or under its block type
OtherBlockStoresKey ==
    /\ Quiescent
    /\ isApiKey(subBlockId)
    /\ \E scope \in ReadScopes(blockType) :
        /\ toolParams[scope] # Str(KeyJ)
        /\ toolParams' = [toolParams EXCEPT ![scope] = Str(KeyJ)]
        /\ last' = Step("otherBlock", "none", Str(KeyJ), NoCalls, Null)
    /\ UNCHANGED <<blockType, subBlockId, initialValue, triggerWorkflowUpdate, fieldValue,
                   model, clearedParams, isAutoFillEnvVarsEnabled, hooks, callerRef,
                   toolbarVars>>

----------------------------------------------------------------------------
(* The Toolbar *)

Categories == {"basic", "advanced"}

BlockConfig(type, category, title, description) ==
    [type |-> type, category |-> category,
     toolbar |-> [title |-> title, description |-> description]]

SnowflakeBlock == BlockConfig("snowflake", "advanced", <<"S", "n">>, <<"w", " ", "q">>)
AgentBlock == BlockConfig("agent", "basic", <<"A", "i">>, <<"N", "s">>)
ApiBlock == BlockConfig("api", "basic", <<"a", "s">>, <<"Q">>)

Registries ==
    {<<SnowflakeBlock, AgentBlock, ApiBlock>>, <<AgentBlock, SnowflakeBlock>>,
     <<ApiBlock>>, <<>>}

QueryChars == {"s", "S", "n", " ", "q"}
Queries == UNION {[1..n -> QueryChars] : n \in 0..MaxQueryLen}

\* blocks/index: getAllBlocks()
getAllBlocks(reg) == reg

\* blocks/index: getBlocksByCategory(category)
getBlocksByCategory(reg, category) ==
    LET InCategory(b) == b.category = category
    IN  SelectSeq(reg, InCategory)

\* the memoised list with the query compared as typed (line 26 without
\* toLowerCase)
toolbarBlocks_QueryAsTyped(reg, query, tab) ==
    IF trim(query) = <<>>
    THEN getBlocksByCategory(reg, tab)
    ELSE LET Matches(block) ==
                 \/ includes(toLowerCase(block.toolbar.title), query)
                 \/ includes(toLowerCase(block.toolbar.description), query)
         IN  SelectSeq(getAllBlocks(reg), Matches)

\* lines 21-32: the memoised list
toolbarBlocks(reg, query, tab) ==
    IF trim(query) = <<>>
    THEN getBlocksByCategory(reg, tab)
    ELSE LET q == toLowerCase(query)
             Matches(block) ==
                 \/ includes(toLowerCase(block.toolbar.title), q)
                 \/ includes(toLowerCase(block.toolbar.description), q)
         IN  SelectSeq(getAllBlocks(reg), Matches)

\* line 60: the user edits the search input
SetSearchQuery ==
    /\ ~isCollapsed
    /\ \E q \in Queries \ {searchQuery} :
        /\ searchQuery' = q
        /\ blocks' = toolbarBlocks(registry, q, activeTab)
    /\ UNCHANGED <<activeTab, isCollapsed, registry, hookVars>>

\* lines 65-67: the tabs are shown, and can be clicked, while the query is ''
SetActiveTab ==
    /\ ~isCollapsed
    /\ searchQuery = <<>>
    /\ \E t \in Categories \ {activeTab} :
        /\ activeTab' = t
        /\ blocks' = toolbarBlocks(registry, searchQuery, t)
    /\ UNCHANGED <<searchQuery, isCollapsed, registry, hookVars>>

\* lines 39 and 80: collapse and expand
SetIsCollapsed ==
    /\ isCollapsed' = ~isCollapsed
    /\ UNCHANGED <<activeTab, searchQuery, registry, blocks, hookVars>>

----------------------------------------------------------------------------
(* Specifications *)

UnmountedHook ==
    [mounted |-> FALSE, valueRef |-> Null, prevModelRef |-> NullModel,
     storeValue |-> Null, modelSub |-> NullModel, autoFill |-> FALSE]

InitialStep ==
    [op |-> "init", h |-> "none", v |-> Null, calls |-> <<>>, ret |-> Null,
     pre |-> [fv |-> Null, cleared |-> FALSE, ref |-> Null, prev |-> NullModel,
              model |-> NullModel, autoFill |-> TRUE, stale |-> FALSE],
     after |-> [op |-> "", v |-> Null, noop |-> FALSE],
     entered |-> Undefined]

\* values the SubBlock Store can hold for the field when the workflow is loaded
LoadedValues(id) ==
    IF isApiKey(id) THEN {Null, Str(KeyK)} ELSE {Null, Obj(1, {<<"a", "1">>})}

\* the Toolbar as constructed (lines 17-19)
ToolbarInit(reg) ==
    /\ activeTab = "basic"
    /\ searchQuery = <<>>
    /\ isCollapsed = FALSE
    /\ registry = reg
    /\ blocks = toolbarBlocks(reg, <<>>, "basic")

\* the hook's uses: block type, sub-block id, triggerWorkflowUpdate and the
\* workflow's initial value of the sub-block
Use(bt, id, trigger, initial) ==
    [blockType |-> bt, subBlockId |-> id, trigger |-> trigger, initial |-> initial]

Uses ==
    {Use("agent", ApiKeyId, FALSE, Null),
     Use("router", ApiKeyId, TRUE, Null),
     Use("evaluator", AltApiKeyId, FALSE, Str(<<"w">>)),
     Use("snowflake", ApiKeyId, TRUE, Str(<<"w">>)),
     Use("snowflake", AltApiKeyId, FALSE, Null),
     Use(UndefinedType, ApiKeyId, TRUE, Null),
     Use(UndefinedType, AltApiKeyId, FALSE, Null),
     Use("snowflake", CodeId, TRUE, Null),
     Use(UndefinedType, CodeId, FALSE, Str(<<"w">>))}

HookInit(uses) ==
    /\ \E u \in uses :
        /\ blockType = u.blockType
        /\ subBlockId = u.subBlockId
        /\ initialValue = u.initial
        /\ triggerWorkflowUpdate = u.trigger
    /\ fieldValue \in LoadedValues(subBlockId)
    /\ model = NullModel
    /\ toolParams = [s \in Scopes |-> Null]
    /\ clearedParams = FALSE
    /\ isAutoFillEnvVarsEnabled = TRUE
    /\ hooks = [h \in Hooks |-> UnmountedHook]
    /\ callerRef = Null
    /\ last = InitialStep

Init ==
    /\ HookInit(Uses)
    /\ ToolbarInit(<<SnowflakeBlock, AgentBlock, ApiBlock>>)

Next ==
    \/ \E h \in Hooks : Render(h)
    \/ \E h \in Hooks : SetValuePrimitive(h)
    \/ \E h \in Hooks : SetValueNewObject(h)
    \/ \E h \in Hooks : SetValueSameObject(h)
    \/ MutateObject
    \/ ModelChange
    \/ ToggleAutoFill
    \/ OtherBlockStoresKey
    \/ OtherInstanceSetValue

Spec == Init /\ [][Next]_vars

\* the uses the cascades of renders are followed for: an API-key field of a
\* provider-based block, of another block and of an absent block, and a
\* structured field
CascadeUses ==
    {Use("router", ApiKeyId, TRUE, Null),
     Use("snowflake", AltApiKeyId, FALSE, Null),
     Use(UndefinedType, ApiKeyId, TRUE, Null),
     Use("snowflake", CodeId, TRUE, Null)}

CascadeInit ==
    /\ HookInit(CascadeUses)
    /\ ToolbarInit(<<SnowflakeBlock, AgentBlock, ApiBlock>>)

\* React re-renders a component whose store subscription has fired: a render
\* that would change the state is eventually taken
CascadeSpec == CascadeInit /\ [][Next]_vars /\ WF_vars(\E h \in Hooks : Render(h))

ToolbarSpecInit ==
    /\ HookInit({Use("snowflake", CodeId, FALSE, Null)})
    /\ fieldValue = Null
    /\ \E reg \in Registries : ToolbarInit(reg)

ToolbarNext ==
    \/ SetSearchQuery
    \/ SetActiveTab
    \/ SetIsCollapsed

ToolbarSpec == ToolbarSpecInit /\ [][ToolbarNext]_vars

----------------------------------------------------------------------------
(* Vocabulary of the properties *)

TheHook == hooks["h1"]

\* the calls of the last step on store function fn
CallsTo(fn) == {i \in DOMAIN last.calls : last.calls[i].fn = fn}
Made(fn) == CallsTo(fn) # {}
ScopesOf(fn) == {last.calls[i].scope : i \in CallsTo(fn)}
ValuesOf(fn) == {last.calls[i].val : i \in CallsTo(fn)}

IsRender == last.op \in {"mount", "render"}
IsSetValue == last.op = "setValue"

\* a field value that is neither null nor ''
NonEmpty(v) == v # Null /\ v # Undefined /\ v # Str(<<>>)

\* the provider of the selected model, for a provider-based block
SelectedProvider ==
    IF isProviderBasedBlock(blockType) /\ model # NullModel
    THEN getProviderFromModel(model)
    ELSE NoProvider

HasUsableProvider == SelectedProvider \notin {NoProvider, "ollama"}

\* the last step stored String(v) under scope, and under no other scope
StoredUnder(scope) ==
    /\ ScopesOf("setToolParam") = {scope}
    /\ toolParams[scope] = Str(StringOf(last.v))

----------------------------------------------------------------------------
(* C1 *)

\* C1: while (blockId, 'apiKey') is marked cleared, a render's effects
\* (auto-fill, model-change) write nothing but '' into the field, and the
\* cleared flag goes away only in a setValue call with a non-blank value.
C1_ClearedIsNotAutoFilled ==
    /\ (IsRender /\ clearedParams) => ValuesOf("setValue") \subseteq {Str(<<>>)}
    /\ (last.pre.cleared /\ ~clearedParams) =>
           (last.op \in {"setValue", "otherInstance"} /\ ~IsBlankInput(last.v))

\* a render of a cleared instance resolved a scope that holds a stored key
C1_Witness ==
    /\ IsRender /\ clearedParams
    /\ \E scope \in ScopesOf("resolveToolParamValue") : Truthy(toolParams[scope])

----------------------------------------------------------------------------
(* C2 *)

C2_Case ==
    /\ IsSetValue /\ isApiKey(subBlockId)
    /\ IsBlankInput(last.v)
    /\ NonEmpty(last.pre.fv)

C2_Effect ==
    /\ clearedParams
    /\ Made("markParamAsCleared")
    /\ ~Made("setToolParam")

\* C2 as stated: setValue with a null, empty or whitespace-only value on an
\* API-key field whose store value is non-empty marks the instance cleared and
\* calls setToolParam for no scope.
C2_BlankMarksCleared_Original == C2_Case => C2_Effect

\* C2 as amended: the same, for a block whose type is known and a value that
\* is not deep-equal to the value the hook has cached.
C2_BlankMarksCleared ==
    (C2_Case /\ blockType # UndefinedType /\ ~isEqual(last.pre.ref, last.v)) => C2_Effect

\* a blank setValue marked the instance cleared while a stored key exists
C2_Witness ==
    /\ C2_Case /\ blockType # UndefinedType
    /\ Made("markParamAsCleared")
    /\ \E scope \in Scopes : toolParams[scope] = Str(KeyK)

----------------------------------------------------------------------------
(* C3 *)

C3_Case ==
    /\ IsSetValue /\ isApiKey(subBlockId)
    /\ last.pre.cleared
    /\ ~IsBlankInput(last.v)

\* C3 as stated: setValue with a non-blank value on a cleared API-key field
\* removes the flag and stores the value under the provider (provider-based
\* block whose model resolves to a provider other than ollama) and under the
\* block type in every other case.
C3_UnmarkAndStore_Original ==
    C3_Case =>
        /\ ~clearedParams
        /\ IF HasUsableProvider THEN StoredUnder(SelectedProvider) ELSE StoredUnder(blockType)

\* C3 as amended: the flag is removed; the value is stored under the provider
\* when the block is provider-based and its model resolves to a provider other
\* than ollama, under the block type when the block is not provider-based or
\* has no model selected, and under no scope when a provider-based block's
\* model resolves to ollama or to no provider.
C3_UnmarkAndStore ==
    C3_Case =>
        /\ ~clearedParams
        /\ Made("unmarkParamAsCleared")
        /\ IF isProviderBasedBlock(blockType) /\ model # NullModel
           THEN IF HasUsableProvider
                THEN StoredUnder(SelectedProvider)
                ELSE ~Made("setToolParam")
           ELSE StoredUnder(blockType)

\* a key typed into a cleared field of a block whose model is an anthropic one
C3_Witness ==
    /\ C3_Case
    /\ Made("unmarkParamAsCleared")
    /\ SelectedProvider = "anthropic"
    /\ toolParams["anthropic"] = Str(KeyK)

----------------------------------------------------------------------------
(* C4 *)

\* a re-render of an API-key field of a provider-based block that sees another
\* model than the one the hook saw last
C4_Case ==
    /\ last.op = "render"
    /\ isApiKey(subBlockId) /\ isProviderBasedBlock(blockType)
    /\ last.pre.prev # model

\* C4 as stated: after a change of model the field holds the new provider's
\* stored key if there is one and auto-fill is enabled, and '' in every other
\* case.
C4_ModelChange_Original ==
    C4_Case =>
        IF HasUsableProvider /\ Truthy(toolParams[SelectedProvider])
           /\ isAutoFillEnvVarsEnabled
        THEN fieldValue = toolParams[SelectedProvider]
        ELSE fieldValue = Str(<<>>)

\* C4 as amended: when the new model resolves to a provider other than ollama
\* the field is set to that provider's stored key if there is one, the
\* instance is not marked cleared and auto-fill is enabled, and to '' if not;
\* when no model is selected, or the model resolves to no provider or to
\* ollama, the field is not written.
C4_ModelChange ==
    C4_Case =>
        IF HasUsableProvider
        THEN IF Truthy(toolParams[SelectedProvider]) /\ ~clearedParams
                /\ isAutoFillEnvVarsEnabled
             THEN fieldValue = toolParams[SelectedProvider]
             ELSE fieldValue = Str(<<>>)
        ELSE /\ ~Made("setValue")
             /\ Strip(fieldValue) = last.pre.fv

\* the field took the new provider's stored key, replacing another value
C4_Witness ==
    /\ C4_Case
    /\ HasUsableProvider
    /\ fieldValue = Str(KeyJ)
    /\ last.pre.fv = Str(KeyK)

----------------------------------------------------------------------------
(* C5 *)

\* a value that JSON.parse(JSON.stringify(v)) reproduces
JsonSafe(v) == v.t # "object" \/ JsonRoundTrip(v.c) = v.c

\* C5: on a field that is not an API-key field, after setValue(v) the store
\* value is deep-equal to v, and so is the value the following render
\* returns.  Stated for the values JSON serialisation reproduces.
C5_RoundTrip ==
    /\ (IsSetValue /\ ~isApiKey(subBlockId) /\ JsonSafe(last.v)) =>
           isEqual(fieldValue, last.v)
    /\ (last.op = "render" /\ last.after.op = "setValue" /\ ~isApiKey(subBlockId)
        /\ JsonSafe(last.after.v)) =>
           isEqual(last.ret, last.after.v)

----------------------------------------------------------------------------
(* C6 *)

\* C6: the render that follows a write to the field's store value returns the
\* new store value and leaves the cached value deep-equal to it.
C6_RenderReturnsStoreValue ==
    (last.op = "render" /\ last.pre.stale /\ JsonSafe(last.after.v)) =>
        /\ isEqual(last.ret, last.pre.fv)
        /\ isEqual(TheHook.valueRef, last.pre.fv)

----------------------------------------------------------------------------
(* C7 *)

\* C7: the first render returns the store's value of the field if the store
\* has one and the workflow's initial value otherwise.
C7_FirstRenderValue ==
    last.op = "mount" =>
        isEqual(last.ret, IF last.pre.fv # Undefined THEN last.pre.fv ELSE initialValue)

----------------------------------------------------------------------------
(* C8 *)

Shown == {blocks[i] : i \in DOMAIN blocks}

MatchingBlocks ==
    {registry[i] : i \in {j \in DOMAIN registry :
        \/ includes(toLowerCase(registry[j].toolbar.title), toLowerCase(searchQuery))
        \/ includes(toLowerCase(registry[j].toolbar.description), toLowerCase(searchQuery))}}

CategoryBlocks == {registry[i] : i \in {j \in DOMAIN registry : registry[j].category = activeTab}}

\* C8 as stated: with a non-empty search string the Toolbar lists exactly the
\* blocks, of all categories, whose title or description contains it
\* case-insensitively; with an empty one, exactly the active category's.
C8_ToolbarFilter_Original ==
    IF searchQuery # <<>>
    THEN Shown = MatchingBlocks /\ Len(blocks) = Cardinality(MatchingBlocks)
    ELSE Shown = CategoryBlocks /\ Len(blocks) = Cardinality(CategoryBlocks)

\* C8 as amended: the search applies when the string holds a character that
\* is not whitespace; an empty or whitespace-only string lists exactly the
\* active category's blocks.
C8_ToolbarFilter ==
    IF trim(searchQuery) # <<>>
    THEN Shown = MatchingBlocks /\ Len(blocks) = Cardinality(MatchingBlocks)
    ELSE Shown = CategoryBlocks /\ Len(blocks) = Cardinality(CategoryBlocks)

\* query 'sn' finds the advanced-category Snowflake block while the basic tab
\* is active
C8_Witness ==
    /\ searchQuery = <<"s", "n">>
    /\ activeTab = "basic"
    /\ SnowflakeBlock \in Shown
    /\ ApiBlock \notin Shown

----------------------------------------------------------------------------
(* C9 *)

\* a re-render that finds the store value deep-equal to the cached value
C9_Case == last.op = "render" /\ isEqual(last.pre.ref, last.pre.fv)

\* C9 as stated: such a re-render keeps the cached reference and writes
\* nothing to the SubBlock Store.
C9_NoRedundantUpdate_Original ==
    C9_Case => (TheHook.valueRef = last.pre.ref /\ ~Made("setValue"))

\* C9 as amended: such a re-render keeps the cached reference; on a field that
\* is not an API-key field it writes nothing to the SubBlock Store.
C9_NoRedundantUpdate ==
    C9_Case =>
        /\ TheHook.valueRef = last.pre.ref
        /\ ~isApiKey(subBlockId) => ~Made("setValue")

\* the store holds another object than the cached one, with the same content,
\* and the ref-sync effect ran
C9_Witness ==
    /\ C9_Case
    /\ last.pre.stale
    /\ last.pre.ref.t = "object"
    /\ fieldValue.t = "object"
    /\ fieldValue.id # last.pre.ref.id

----------------------------------------------------------------------------
(* C10 *)

\* C10: no key is ever stored under, or resolved from, the scope 'ollama';
\* with a model that resolves to ollama, setValue calls setToolParam for no
\* provider and a render's effects neither resolve a stored key nor write the
\* field.
C10_OllamaExcluded ==
    /\ toolParams["ollama"] = Null
    /\ "ollama" \notin (ScopesOf("setToolParam") \cup ScopesOf("resolveToolParamValue"))
    /\ (SelectedProvider = "ollama" /\ isApiKey(subBlockId)) =>
          /\ IsSetValue => ~Made("setToolParam")
          /\ IsRender => (~Made("resolveToolParamValue") /\ ~Made("setValue"))

\* the user switched to an ollama model with auto-fill enabled, a key in the
\* field and keys stored for other providers
C10_Witness ==
    /\ last.op = "render" /\ isApiKey(subBlockId)
    /\ SelectedProvider = "ollama"
    /\ last.pre.prev # model
    /\ isAutoFillEnvVarsEnabled
    /\ NonEmpty(fieldValue)
    /\ Truthy(toolParams["openai"])

----------------------------------------------------------------------------
(* C11 *)

\* a render of an API-key field in which the model-change effect has nothing
\* to do (the model is the one the hook saw last), so that every write of the
\* render is the auto-fill effect's
C11_Case ==
    /\ IsRender /\ isApiKey(subBlockId)
    /\ last.pre.prev = ModelValueOf(blockType, model)

\* C11: the auto-fill effect leaves a non-empty field value as it is, on
\* provider-based blocks and on all other blocks alike.
C11_AutoFillKeepsNonEmpty ==
    (C11_Case /\ NonEmpty(last.pre.fv)) => Strip(fieldValue) = last.pre.fv

----------------------------------------------------------------------------
(* C12 *)

\* a re-render after the user changed between two models of one provider,
\* with auto-fill disabled, so that every write of the render is the
\* model-change effect's
C12_Case ==
    /\ last.op = "render"
    /\ isApiKey(subBlockId) /\ isProviderBasedBlock(blockType)
    /\ last.pre.prev # NullModel /\ model # NullModel
    /\ last.pre.prev # model
    /\ getProviderFromModel(last.pre.prev) = getProviderFromModel(model)
    /\ ~isAutoFillEnvVarsEnabled

\* C12: a change between two models of the same provider leaves the API-key
\* field's value unchanged.
C12_SameProviderKeepsField ==
    C12_Case => (~Made("setValue") /\ Strip(fieldValue) = last.pre.fv)

----------------------------------------------------------------------------
(* C13 *)

\* C13: with auto-fill disabled, the first render of an API-key field and its
\* effects write nothing to the SubBlock Store: the field keeps the value it
\* had, on every block type.
C13_MountWritesNothing ==
    (last.op = "mount" /\ isApiKey(subBlockId) /\ ~isAutoFillEnvVarsEnabled) =>
        (~Made("setValue") /\ Strip(fieldValue) = last.pre.fv)

----------------------------------------------------------------------------
(* C14 *)

\* C14: an in-place mutation, by the caller, of an object it passed to
\* setValue changes neither the SubBlock Store's value of the field nor the
\* hook's cached value.
C14_NoAliasing ==
    last.op = "mutate" =>
        /\ Strip(fieldValue) = last.pre.fv
        /\ Strip(TheHook.valueRef) = Strip(last.pre.ref)

----------------------------------------------------------------------------
(* C15 *)

\* the last step called setToolParam, markParamAsCleared or
\* unmarkParamAsCleared, or changed the cleared flag
C15_Changed ==
    \/ Made("setToolParam")
    \/ Made("markParamAsCleared")
    \/ Made("unmarkParamAsCleared")
    \/ last.pre.cleared # clearedParams

\* C15: credential storage and the cleared flag are changed only by a setValue
\* call on an API-key field of a block whose type is known; setValue on any
\* other field, the effects and re-renders leave both unchanged.
C15_OnlySetValueStores ==
    C15_Changed =>
        /\ last.op \in {"setValue", "otherInstance"}
        /\ isApiKey(subBlockId)
        /\ blockType # UndefinedType

\* a key typed into a field whose id contains 'apikey' in another case was
\* stored under the block type
C15_Witness ==
    /\ IsSetValue
    /\ subBlockId = AltApiKeyId
    /\ StoredUnder("snowflake")

----------------------------------------------------------------------------
(* C16 *)

\* C16: a setValue(v) call with v not deep-equal to the cached value writes
\* the SubBlock Store exactly once; with triggerWorkflowUpdate it then calls
\* triggerUpdate exactly once, after the store write, and without it never;
\* a call with v deep-equal to the cached value calls nothing and changes
\* neither the field, the credential storage nor the cleared flag.
C16_WriteThenTrigger ==
    IsSetValue =>
        IF ~isEqual(last.pre.ref, last.v)
        THEN /\ Cardinality(CallsTo("setValue")) = 1
             /\ IF triggerWorkflowUpdate
                THEN /\ CallsTo("triggerUpdate") = {Len(last.calls)}
                     /\ CallsTo("setValue") = {Len(last.calls) - 1}
                ELSE ~Made("triggerUpdate")
        ELSE /\ last.calls = <<>>
             /\ Strip(fieldValue) = last.pre.fv
             /\ clearedParams = last.pre.cleared

\* a key typed into an API-key field with triggerWorkflowUpdate: credential
\* storage, then the store write, then the notification
C16_Witness ==
    /\ IsSetValue /\ triggerWorkflowUpdate
    /\ Len(last.calls) = 3
    /\ last.calls[1].fn = "setToolParam"
    /\ last.calls[2].fn = "setValue"
    /\ last.calls[3].fn = "triggerUpdate"

----------------------------------------------------------------------------
(* C17 *)

\* the block id is absent from the Workflow Store: no type, no initial value
C17_Case == blockType = UndefinedType /\ initialValue = Null

----------------------------------------------------------------------------
(* C18 *)

\* C18: the cascade of effect writes and re-renders that an event starts
\* ends: whenever a render is pending, a state in which none is pending
\* follows (events happen only in such states, so the renders in between
\* are the cascade's).
C18_CascadeSettles == []<>Quiescent

\* a render caused by the store write of the previous render's effects
C18_Witness ==
    /\ last.op = "render"
    /\ last.after.op \in {"mount", "render"}
    /\ last.pre.stale

----------------------------------------------------------------------------
(* C19 *)

\* C19: the key that a setValue call entered into an API-key field is the
\* field's store value in every state up to the next setValue call, change of
\* model or change of the auto-fill setting: no render and no effect replaces
\* or clears it.
C19_EnteredKeyStays ==
    last.entered # Undefined => Strip(fieldValue) = last.entered

====
